---- MODULE Spec2Model ----
(***************************************************************************)
(* LamAna: laminate construction and model handshake.                      *)
(*                                                                         *)
(* A geometry string is parsed into a Geometry, a FeatureInput is built,   *)
(* the Stack and its Snapshot are made (Phase 1), the Laminate computes    *)
(* the LFrame (Phase 2) and the LaminateModel hands the LFrame to the      *)
(* selected model's _use_model_ hook (Phase 3), which returns the LMFrame  *)
(* or raises, in which case the LMFrame is rolled back to the LFrame.      *)
(*                                                                         *)
(* Strings are sequences of one-character strings.  Thicknesses are whole  *)
(* numbers of micrometres, written "400" or "400.0".                       *)
(***************************************************************************)
EXTENDS Integers, Sequences, FiniteSets, TLC

VARIABLES
    geo_input,      \* the user's input string
    FeatureInput,   \* dict: Geometry, Parameters, Properties, Materials, Model, Globals
    StackTuple,     \* Stack(G).StackTuple: order, nplies, name, alias
    Snapshot,       \* one row per layer: layer_, matl_, type_, t_
    LFrame,         \* one row per point: IDs and dimensionals
    LMFrame,        \* LFrame plus model columns, or the LFrame after a rollback
    state,          \* position of the invocation in the LaminateModel architecture
    step,           \* position inside the Unbuilt state: "start", "parsed", "configured"
    error,          \* exception that left the invocation and reached the caller
    hook,           \* outcome of the model's _use_model_ hook during the handshake
    log,            \* errors reported (traceback printed) during the invocation
    returned,       \* what the caller holds at the end: "nothing", "table"
    nhandshakes,    \* number of times handshake() was called
    case_materials, \* the materials property set by the user; <<>>: not set
    plugin,         \* the model module the handshake found: its style, where it fails
    pair,           \* concurrent invocations: the FeatureInput dicts and the workers
    arguments       \* what the user passed to get_FeatureInput

vars == <<geo_input, FeatureInput, StackTuple, Snapshot, LFrame, LMFrame,
          state, step, error, hook, log, returned, nhandshakes, case_materials,
          plugin, pair, arguments>>

(***************************************************************************)
(* Bounds of the model.                                                    *)
(***************************************************************************)
MaxInner == 2
MaxP == 5

(***************************************************************************)
(* Characters and numbers.                                                 *)
(***************************************************************************)
Digits == {"0", "1", "2", "3", "4", "5", "6", "7", "8", "9"}

DigitVal(c) ==
    CASE c = "0" -> 0 [] c = "1" -> 1 [] c = "2" -> 2 [] c = "3" -> 3
      [] c = "4" -> 4 [] c = "5" -> 5 [] c = "6" -> 6 [] c = "7" -> 7
      [] c = "8" -> 8 [] c = "9" -> 9

DigitChar(n) ==
    CASE n = 0 -> "0" [] n = 1 -> "1" [] n = 2 -> "2" [] n = 3 -> "3"
      [] n = 4 -> "4" [] n = 5 -> "5" [] n = 6 -> "6" [] n = 7 -> "7"
      [] n = 8 -> "8" [] n = 9 -> "9"

IsDigits(s) == Len(s) > 0 /\ \A i \in 1..Len(s) : s[i] \in Digits

RECURSIVE StrToNat(_)
StrToNat(s) ==
    LET value[str \in {s}] ==
            IF str = <<>> THEN 0
            ELSE 10 * StrToNat(SubSeq(str, 1, Len(str) - 1)) + DigitVal(str[Len(str)])
    IN  value[s]

RECURSIVE NatToStr(_)
NatToStr(n) ==
    LET digits[m \in {n}] ==
            IF m < 10 THEN <<DigitChar(m)>>
            ELSE NatToStr(m \div 10) \o <<DigitChar(m % 10)>>
    IN  digits[n]

\* float(token): digits, optionally followed by ".0"
IsNumeric(s) ==
    \/ IsDigits(s)
    \/ /\ Len(s) >= 3
       /\ s[Len(s) - 1] = "."
       /\ s[Len(s)] = "0"
       /\ IsDigits(SubSeq(s, 1, Len(s) - 2))

ToFloat(s) ==
    IF IsDigits(s) THEN StrToNat(s) ELSE StrToNat(SubSeq(s, 1, Len(s) - 2))

\* str(float): "400.0"
FloatStr(n) == NatToStr(n) \o <<".", "0">>

RECURSIVE Split(_, _)
\* str.split(sep); the string is bound once, as a value, before it is cut
Split(s, sep) ==
    LET split[str \in {s}] ==
            IF \A i \in 1..Len(str) : str[i] # sep THEN <<str>>
            ELSE LET i == CHOOSE k \in 1..Len(str) :
                             str[k] = sep /\ \A j \in 1..(k - 1) : str[j] # sep
                 IN  <<SubSeq(str, 1, i - 1)>> \o Split(SubSeq(str, i + 1, Len(str)), sep)
    IN  split[s]

RECURSIVE Join(_, _)
Join(toks, sep) ==
    LET joined[strs \in {toks}] ==
            IF strs = <<>> THEN <<>>
            ELSE IF Len(strs) = 1 THEN strs[1]
            ELSE strs[1] \o <<sep>> \o Join(Tail(strs), sep)
    IN  joined[toks]

NotSpace(c) == c # " "

StripSpaces(s) == SelectSeq(s, NotSpace)

(***************************************************************************)
(* input_.Geometry: parsing a geometry string.                             *)
(***************************************************************************)
DashesInBracketsAsCommas(s) ==
    [i \in 1..Len(s) |->
        IF /\ s[i] = "-"
           /\ \E j \in 1..(i - 1) : s[j] = "["
           /\ \E j \in (i + 1)..Len(s) : s[j] = "]"
        THEN "," ELSE s[i]]

\* mutant: a dash inside the brackets separates inner layers as a comma does
tokens_dash_in_brackets(s) == Split(DashesInBracketsAsCommas(StripSpaces(s)), "-")

\* the dash separates the layer types outer-inner-middle
tokens(s) == Split(StripSpaces(s), "-")

\* mutant: only a bracketed token holds inner layers
InnerBody_brackets_only(tok) ==
    IF Len(tok) >= 2 /\ tok[1] = "[" /\ tok[Len(tok)] = "]"
    THEN SubSeq(tok, 2, Len(tok) - 1)
    ELSE <<>>

\* the inner token without its brackets; shorthand "200" is read as "[200]"
InnerBody(tok) ==
    IF Len(tok) >= 2 /\ tok[1] = "[" /\ tok[Len(tok)] = "]"
    THEN SubSeq(tok, 2, Len(tok) - 1)
    ELSE tok

InnerTokens(tok) == Split(InnerBody(tok), ",")

\* mutant: only a lower-case marker is recognised
HasMarker_lower_case(tok) == Len(tok) >= 1 /\ tok[Len(tok)] = "s"

HasMarker(tok) == Len(tok) >= 1 /\ tok[Len(tok)] = "S"

MiddleBody(tok) == IF HasMarker(tok) THEN SubSeq(tok, 1, Len(tok) - 1) ELSE tok

\* mutant: the marked thickness is returned as it is written
check_symmetry_half(tok) == ToFloat(MiddleBody(tok))

\* '400S' is the symmetric (half) thickness of a middle of 800
check_symmetry(tok) ==
    IF HasMarker(tok) THEN 2 * ToFloat(MiddleBody(tok)) ELSE ToFloat(tok)

\* the geometry string is well formed: outer-[inner_i,...]-middle
is_valid(s) ==
    LET toks == tokens(s)
    IN  /\ Len(toks) = 3
        /\ IsNumeric(toks[1])
        /\ \A i \in 1..Len(InnerTokens(toks[2])) : IsNumeric(InnerTokens(toks[2])[i])
        /\ IsNumeric(MiddleBody(toks[3]))

\* General Convention: the inner layers as a list of floats, '400.0-[200.0]-800.0'
to_gen_convention(outer, inner, middle, symmetric) ==
    FloatStr(outer) \o <<"-", "[">>
        \o Join([i \in 1..Len(inner) |-> FloatStr(inner[i])], ",")
        \o <<"]", "-">>
        \o (IF symmetric THEN FloatStr(middle \div 2) \o <<"S">> ELSE FloatStr(middle))

parse_geometry(s) ==
    LET toks   == tokens(s)
        inners == InnerTokens(toks[2])
        outer  == ToFloat(toks[1])
        inner  == [i \in 1..Len(inners) |-> ToFloat(inners[i])]
        middle == check_symmetry(toks[3])
        sym    == HasMarker(toks[3])
    IN  [outer |-> outer, inner |-> inner, middle |-> middle, symmetric |-> sym,
         string |-> to_gen_convention(outer, inner, middle, sym)]

NoGeometry ==
    [outer |-> 0, inner |-> <<>>, middle |-> 0, symmetric |-> FALSE, string |-> <<>>]

(***************************************************************************)
(* Inputs.                                                                 *)
(***************************************************************************)
RECURSIVE SeqsUpTo(_, _)
\* the sequences over S of length 1..n
SeqsUpTo(S, n) ==
    IF n = 0 THEN {}
    ELSE LET shorter == SeqsUpTo(S, n - 1)
         IN  {<<x>> : x \in S} \cup shorter
                \cup {Append(q, x) : q \in shorter, x \in S}

\* renderings of a geometry the user may type
BracketForm(o, inn, m) ==
    NatToStr(o) \o <<"-", "[">> \o Join([i \in 1..Len(inn) |-> NatToStr(inn[i])], ",")
        \o <<"]", "-">> \o NatToStr(m)

ShortForm(o, inn, m) ==
    NatToStr(o) \o <<"-">> \o NatToStr(inn[1]) \o <<"-">> \o NatToStr(m)

SymForm(o, inn, m) == BracketForm(o, inn, m \div 2) \o <<"S">>

ShortSymForm(o, inn, m) == ShortForm(o, inn, m \div 2) \o <<"S">>

SpacedForm(o, inn, m) ==
    NatToStr(o) \o <<" ", "-", " ", "[">>
        \o Join([i \in 1..Len(inn) |-> NatToStr(inn[i])], ",")
        \o <<"]", " ", "-", " ">> \o NatToStr(m)

OuterValues == {0, 400}

InnerValues == {0, 100, 200}

MiddleValues == {0, 400, 800}

\* every thickness zero is no laminate
Thicknesses(inners) ==
    {t \in OuterValues \X SeqsUpTo(inners, MaxInner) \X MiddleValues :
        t[1] + t[3] > 0 \/ \E i \in 1..Len(t[2]) : t[2][i] > 0}

\* '400-[200-100-300]-800' (LPEP 001.11) and other strings that are no geometry
InvalidInputs ==
    { <<"4","0","0","-","[","2","0","0","-","1","0","0","-","3","0","0","]","-","8","0","0">>,
      <<"4","0","0","-","[","2","0","0","-","1","0","0","]","-","8","0","0">>,
      <<"4","0","0","-","x","-","8","0","0">>,
      <<"-","4","0","0","-","[","2","0","0","]","-","8","0","0">>,
      <<"4","0","0","-","[","-","2","0","0","]","-","8","0","0">>,
      <<"4","0","0","-","[","2","0","0",",","a","]","-","8","0","0">>,
      <<"4","0","0","-","[","2","0","0","]","-","8","0","0","T">>,
      <<"4","0","0","-","8","0","0">> }

\* the input strings of the geometry specification
GeoInputsAll ==
    {BracketForm(t[1], t[2], t[3]) : t \in Thicknesses(InnerValues)}
        \cup {SymForm(t[1], t[2], t[3]) : t \in Thicknesses(InnerValues)}
        \cup {SpacedForm(t[1], t[2], t[3]) : t \in Thicknesses(InnerValues)}
        \cup {to_gen_convention(t[1], t[2], t[3], FALSE) : t \in Thicknesses(InnerValues)}
        \cup {ShortForm(t[1], t[2], t[3]) :
                t \in {u \in Thicknesses(InnerValues) : Len(u[2]) = 1}}
        \cup {ShortSymForm(t[1], t[2], t[3]) :
                t \in {u \in Thicknesses(InnerValues) : Len(u[2]) = 1}}
        \cup InvalidInputs

\* the input strings of the pipeline specification
GeoInputs ==
    {BracketForm(t[1], t[2], t[3]) :
        t \in {u \in Thicknesses({0, 200}) : u[3] \in {0, 800}}}
        \cup {<<"4","0","0","-","[","2","0","0","-","1","0","0","-","3","0","0","]","-","8","0","0">>}
        \cup {BracketForm(400, <<100, 200>>, 800)}

(***************************************************************************)
(* input_.BaseDefaults.get_FeatureInput: the FeatureInput dict.            *)
(***************************************************************************)
\* loading parameters, lengths in units of 1e-4 m: R = 12e-3, a = 7.5e-3, r = 2e-4
LoadCases ==
    { [R |-> 120, a |-> 75,  P_a |-> 1, r |-> 2],
      [R |-> 120, a |-> 75,  P_a |-> 1, r |-> 0],
      [R |-> 120, a |-> 0,   P_a |-> 1, r |-> 2],
      [R |-> 120, a |-> 75,  P_a |-> 1, r |-> -2],
      [R |-> 120, a |-> 130, P_a |-> 1, r |-> 2],
      [R |-> 120, a |-> 0,   P_a |-> 1, r |-> -2] }

RequiredParameters == {"R", "a", "p", "P_a", "r"}

\* load_params dicts the user may pass: all keys, or one key missing
LoadParams ==
    {[k \in RequiredParameters |-> IF k = "p" THEN p ELSE c[k]] :
        c \in LoadCases, p \in 1..MaxP}
        \cup {[k \in RequiredParameters \ {"r"} |-> IF k = "p" THEN 2 ELSE 120]}

\* mat_props in Quick Form {material: [modulus, poissons]}; moduli in GPa/10,
\* Poisson's ratios in hundredths
QuickForms ==
    { [m \in {"HA", "PSu"} |-> IF m = "HA" THEN <<520, 25>> ELSE <<27, 33>>] }

\* mutant: the two values of a material are taken in the other order
to_standard_swapped(quick) ==
    [Modulus  |-> [m \in DOMAIN quick |-> quick[m][2]],
     Poissons |-> [m \in DOMAIN quick |-> quick[m][1]]]

to_standard(quick) ==
    [Modulus  |-> [m \in DOMAIN quick |-> quick[m][1]],
     Poissons |-> [m \in DOMAIN quick |-> quick[m][2]]]

to_quick(standard) ==
    [m \in DOMAIN standard.Modulus |-> <<standard.Modulus[m], standard.Poissons[m]>>]

is_standard(mat_props) == DOMAIN mat_props = {"Modulus", "Poissons"}

\* mat_props dicts the user may pass: Quick Form, Standard Form, and dicts with a
\* property missing for a material
MatProps ==
    QuickForms \cup {to_standard(q) : q \in QuickForms}
        \cup { [m \in {"HA", "PSu"} |-> IF m = "HA" THEN <<520, 25>> ELSE <<27>>],
               [Modulus |-> [m \in {"HA", "PSu"} |-> 27], Poissons |-> [m \in {"HA"} |-> 25]] }

mat_props_valid(mat_props) ==
    IF is_standard(mat_props)
    THEN /\ DOMAIN mat_props.Modulus = DOMAIN mat_props.Poissons
         /\ DOMAIN mat_props.Modulus # {}
    ELSE /\ DOMAIN mat_props # {}
         /\ \A m \in DOMAIN mat_props : Len(mat_props[m]) = 2

load_params_valid(load_params) == RequiredParameters \subseteq DOMAIN load_params

\* Standard Form is what is stored
standardize(mat_props) ==
    IF is_standard(mat_props) THEN mat_props ELSE to_standard(mat_props)

\* the material keys in alphabetical order (a pandas index of the dict)
AlphabeticalOrder == <<"HA", "PSu">>

default_materials(properties) ==
    SelectSeq(AlphabeticalOrder, LAMBDA m : m \in DOMAIN properties.Modulus)

\* case.materials = ['PSu', 'HA'] overrides the default order; <<>>: not set
MaterialsSettings == {<<>>, <<"PSu", "HA">>, <<"PSu">>}

Models == {"Wilson_LT", "Custom_LT"}

NoParameters == [R |-> 0, a |-> 0, p |-> 0, P_a |-> 0, r |-> 0]

NoProperties == [Modulus |-> [m \in {} |-> 0], Poissons |-> [m \in {} |-> 0]]

NoFeatureInput ==
    [Geometry |-> NoGeometry, Parameters |-> NoParameters, Properties |-> NoProperties,
     Materials |-> <<>>, Model |-> "None", Globals |-> "None"]

get_FeatureInput(G, load_params, mat_props, materials, model) ==
    [Geometry   |-> G,
     Parameters |-> [R |-> load_params["R"], a |-> load_params["a"],
                     p |-> load_params["p"], P_a |-> load_params["P_a"],
                     r |-> load_params["r"]],
     Properties |-> standardize(mat_props),
     Materials  |-> IF materials = <<>> THEN default_materials(standardize(mat_props))
                    ELSE materials,
     Model      |-> model,
     Globals    |-> "None"]

(***************************************************************************)
(* constructs.Stack (Phase 1).                                             *)
(***************************************************************************)
Reverse(s) == [i \in 1..Len(s) |-> s[Len(s) + 1 - i]]

Layer(t, ltype) == [t |-> t, type |-> ltype]

\* mutant: the upper inner layers repeat the lower ones in the same order
decode_geometry_repeated(G) ==
    LET inners == [i \in 1..Len(G.inner) |-> Layer(G.inner[i], "inner")]
    IN  <<Layer(G.outer, "outer")>> \o inners \o <<Layer(G.middle, "middle")>>
            \o inners \o <<Layer(G.outer, "outer")>>

\* the stacking order bottom to top: outer, inner_i, middle, inner_i mirrored, outer
decode_geometry(G) ==
    LET inners == [i \in 1..Len(G.inner) |-> Layer(G.inner[i], "inner")]
    IN  <<Layer(G.outer, "outer")>> \o inners \o <<Layer(G.middle, "middle")>>
            \o Reverse(inners) \o <<Layer(G.outer, "outer")>>

IsLamina(layer) == layer.t # 0

Alias(nplies) ==
    CASE nplies = 2 -> "Bilayer" [] nplies = 3 -> "Trilayer"
      [] nplies = 5 -> "standard" [] OTHER -> "None"

\* mutant: counts the layers of zero thickness too
identify_geometry_with_zeros(decoded) ==
    [order |-> decoded, nplies |-> Len(decoded),
     name |-> NatToStr(Len(decoded)) \o <<"-", "p", "l", "y">>,
     alias |-> Alias(Len(decoded))]

\* enumerates the laminae; layers of zero thickness are no laminae
identify_geometry(decoded) ==
    LET order == SelectSeq(decoded, IsLamina)
    IN  [order |-> order, nplies |-> Len(order),
         name |-> NatToStr(Len(order)) \o <<"-", "p", "l", "y">>,
         alias |-> Alias(Len(order))]

NoStack == [order |-> <<>>, nplies |-> 0, name |-> <<>>, alias |-> "None"]

\* mutant: past the end of the list the last material is repeated
add_materials_clamped(order, materials) ==
    [i \in 1..Len(order) |-> materials[IF i <= Len(materials) THEN i ELSE Len(materials)]]

\* the list of materials is cycled through the layers
add_materials(order, materials) ==
    [i \in 1..Len(order) |-> materials[((i - 1) % Len(materials)) + 1]]

\* mutant: layers and materials are paired off, which stops at the shorter list
build_snapshot_paired(stack, materials) ==
    [i \in 1..(IF Len(materials) < stack.nplies THEN Len(materials) ELSE stack.nplies) |->
        [layer_ |-> i,
         matl_  |-> materials[i],
         type_  |-> stack.order[i].type,
         t_     |-> stack.order[i].t]]

build_snapshot(stack, materials) ==
    [i \in 1..stack.nplies |->
        [layer_ |-> i,
         matl_  |-> add_materials(stack.order, materials)[i],
         type_  |-> stack.order[i].type,
         t_     |-> stack.order[i].t]]

(***************************************************************************)
(* constructs.Laminate (Phase 2): the LFrame.                              *)
(***************************************************************************)
NoFrame == [rows |-> <<>>, columns |-> {}]

\* mutant: the row shared by two adjacent layers is kept once
build_primitive_collapsed(snapshot, p) ==
    IF p = 1 THEN [k \in 1..Len(snapshot) |-> snapshot[k]]
    ELSE [k \in 1..(Len(snapshot) * (p - 1) + 1) |->
            snapshot[IF k = Len(snapshot) * (p - 1) + 1 THEN Len(snapshot)
                     ELSE ((k - 1) \div (p - 1)) + 1]]

\* mutant: the rows are grouped by point, the first point of every layer first
build_primitive_by_point(snapshot, p) ==
    [k \in 1..(Len(snapshot) * p) |-> snapshot[((k - 1) % Len(snapshot)) + 1]]

\* mutant: the thickness of a layer is divided among its p rows
build_primitive_t_per_row(snapshot, p) ==
    [k \in 1..(Len(snapshot) * p) |->
        [snapshot[((k - 1) \div p) + 1] EXCEPT !.t_ = @ \div p]]

\* p rows per layer, layers bottom to top
build_primitive(snapshot, p) ==
    [k \in 1..(Len(snapshot) * p) |-> snapshot[((k - 1) \div p) + 1]]

\* mutant: the indeterminate row silently gets the neutral-axis default
set_stresses_silent(rows, k) ==
    LET n_rows == Len(rows)
        half_the_stack == n_rows \div 2
    IN  IF k <= half_the_stack THEN "Tens."
        ELSE IF k > n_rows - half_the_stack THEN "Comp."
        ELSE "None"

\* mutant: the tensile half ends one row early
set_stresses_short_half(rows, k) ==
    LET n_rows == Len(rows)
        half_the_stack == n_rows \div 2
        n_middles == Cardinality({j \in 1..n_rows : rows[j].type_ = "middle"})
    IN  IF n_middles = 1 /\ k = half_the_stack + 1 THEN "INDET"
        ELSE IF k < half_the_stack THEN "Tens."
        ELSE IF k > n_rows - half_the_stack THEN "Comp."
        ELSE "None"

\* the expected stress per side of the neutral axis, by row; the middle row of an
\* odd number of rows is the neutral axis ('None'); with p = 1 the row of a middle
\* layer is indeterminate
set_stresses(rows, k) ==
    LET n_rows == Len(rows)
        half_the_stack == n_rows \div 2
        n_middles == Cardinality({j \in 1..n_rows : rows[j].type_ = "middle"})
    IN  IF n_middles = 1 /\ k = half_the_stack + 1 THEN "INDET"
        ELSE IF k <= half_the_stack THEN "Tens."
        ELSE IF k > n_rows - half_the_stack THEN "Comp."
        ELSE "None"

\* mutant: the centre row of the centre layer is the neutral axis for any nplies
set_labels_any_nplies(layer, i, nplies, p) ==
    IF layer = (nplies + 1) \div 2
    THEN IF p % 2 = 1 /\ i = (p + 1) \div 2 THEN "neut. axis"
         ELSE IF i = 1 \/ i = p THEN "interface"
         ELSE "internal"
    ELSE IF layer <= nplies \div 2
    THEN IF i = 1 THEN "interface"
         ELSE IF i = p THEN "discont."
         ELSE "internal"
    ELSE IF i = p THEN "interface"
         ELSE IF i = 1 THEN "discont."
         ELSE "internal"

\* mutant: the middle layer is labelled like a layer of the tensile side
set_labels_middle_as_lower(layer, i, nplies, p) ==
    IF nplies % 2 = 1 /\ layer = (nplies + 1) \div 2 /\ p % 2 = 1 /\ i = (p + 1) \div 2
    THEN "neut. axis"
    ELSE IF layer <= (nplies + 1) \div 2
    THEN IF i = 1 THEN "interface"
         ELSE IF i = p THEN "discont."
         ELSE "internal"
    ELSE IF i = p THEN "interface"
         ELSE IF i = 1 THEN "discont."
         ELSE "internal"

\* mutant: interface and discontinuity change places outside the middle layer
set_labels_swapped(layer, i, nplies, p) ==
    IF nplies % 2 = 1 /\ layer = (nplies + 1) \div 2
    THEN IF p % 2 = 1 /\ i = (p + 1) \div 2 THEN "neut. axis"
         ELSE IF i = 1 \/ i = p THEN "interface"
         ELSE "internal"
    ELSE IF layer <= nplies \div 2
    THEN IF i = p THEN "interface"
         ELSE IF i = 1 THEN "discont."
         ELSE "internal"
    ELSE IF i = 1 THEN "interface"
         ELSE IF i = p THEN "discont."
         ELSE "internal"

\* the type of point of row i (1..p) of a layer
set_labels(layer, i, nplies, p) ==
    IF nplies % 2 = 1 /\ layer = (nplies + 1) \div 2
    THEN IF p % 2 = 1 /\ i = (p + 1) \div 2 THEN "neut. axis"
         ELSE IF i = 1 \/ i = p THEN "interface"
         ELSE "internal"
    ELSE IF layer <= nplies \div 2
    THEN IF i = 1 THEN "interface"
         ELSE IF i = p THEN "discont."
         ELSE "internal"
    ELSE IF i = p THEN "interface"
         ELSE IF i = 1 THEN "discont."
         ELSE "internal"

\* mutant: h_ is the whole thickness in every layer
set_h_whole(row) == row.t_

\* lamina thickness relative to the neutral axis: t_middle = 2 h_middle
set_h(row) == IF row.type_ = "middle" THEN row.t_ \div 2 ELSE row.t_

\* the fractional height of point i (1..p) in its layer, 0 at the bottom and 1 at
\* the top, as the fraction num/den
set_k(i, p) == [num |-> i - 1, den |-> IF p = 1 THEN 1 ELSE p - 1]

\* the primitive rows are built once, then the columns are filled in
build_LFrame(snapshot, p) ==
    LET frame[rows \in {build_primitive(snapshot, p)}] ==
            [rows |->
                [k \in 1..Len(rows) |->
                    [layer_ |-> rows[k].layer_,
                     side_  |-> set_stresses(rows, k),
                     matl_  |-> rows[k].matl_,
                     type_  |-> rows[k].type_,
                     t_     |-> rows[k].t_,
                     label_ |-> set_labels(rows[k].layer_, ((k - 1) % p) + 1,
                                           Len(snapshot), p),
                     h_     |-> set_h(rows[k]),
                     k_     |-> set_k(((k - 1) % p) + 1, p)]],
             columns |-> {}]
    IN  frame[build_primitive(snapshot, p)]

(***************************************************************************)
(* models: the _use_model_ hook.  The hook works on a copy of the LFrame    *)
(* and on the Laminate's own FeatureInput dict: what it assigns to         *)
(* FeatureInput['Globals'] stays assigned when it raises afterwards.       *)
(***************************************************************************)
WilsonColumns ==
    {"Q_11", "Q_12", "D_11", "D_12", "strain_r", "strain_t",
     "stress_r (Pa/N)", "stress_t (Pa/N)", "stress_f (MPa/N)"}

CustomColumns == {"stress_f (MPa/N)"}

NoHook == [status |-> "none", exc |-> "None", df |-> NoFrame, Globals |-> "None"]

Raised(exc, globals) ==
    [status |-> "raised", exc |-> exc, df |-> NoFrame, Globals |-> globals]

Returned(df, globals) ==
    [status |-> "returned", exc |-> "None", df |-> df, Globals |-> globals]

HasINDET(frame) == \E k \in 1..Len(frame.rows) : frame.rows[k].side_ = "INDET"

\* the rows whose D_11, D_12 are summed to D_11T, D_12T
TotalRows(frame, FI) ==
    IF FI.Parameters.p = 1 /\ (Len(frame.rows) \div FI.Parameters.p) % 2 = 0
    THEN {k \in 1..Len(frame.rows) : TRUE}
    ELSE {k \in 1..Len(frame.rows) : frame.rows[k].label_ = "interface"}

\* mutant: the model does not look for INDET
Wilson_LT_unchecked(frame, FI) ==
    IF FI.Parameters.r = 0 THEN Raised("ZeroDivisionError", FI.Globals)
    ELSE IF FI.Parameters.a = 0 THEN Raised("ZeroDivisionError", FI.Globals)
    ELSE IF FI.Parameters.r < 0 \/ FI.Parameters.a < 0
    THEN Raised("ValueError", FI.Globals)
    ELSE IF FI.Parameters.a > FI.Parameters.R THEN Raised("ValueError", FI.Globals)
    ELSE IF TotalRows(frame, FI) = {} THEN Raised("ZeroDivisionError", FI.Globals)
    ELSE Returned([rows |-> frame.rows, columns |-> WilsonColumns], "global_params")

\* mutant: Globals is assigned first, the checks follow
Wilson_LT_checks_late(frame, FI) ==
    IF FI.Parameters.r = 0 THEN Raised("ZeroDivisionError", "global_params")
    ELSE IF FI.Parameters.a = 0 THEN Raised("ZeroDivisionError", "global_params")
    ELSE IF FI.Parameters.r < 0 \/ FI.Parameters.a < 0
    THEN Raised("ValueError", "global_params")
    ELSE IF FI.Parameters.a > FI.Parameters.R THEN Raised("ValueError", "global_params")
    ELSE IF HasINDET(frame) THEN Raised("IndeterminateError", "global_params")
    ELSE IF TotalRows(frame, FI) = {} THEN Raised("ZeroDivisionError", FI.Globals)
    ELSE Returned([rows |-> frame.rows, columns |-> WilsonColumns], "global_params")

\* models.Wilson_LT.Model._use_model_
Wilson_LT(frame, FI) ==
    IF FI.Parameters.r = 0 THEN Raised("ZeroDivisionError", FI.Globals)
    ELSE IF FI.Parameters.a = 0 THEN Raised("ZeroDivisionError", FI.Globals)
    ELSE IF FI.Parameters.r < 0 \/ FI.Parameters.a < 0
    THEN Raised("ValueError", FI.Globals)
    ELSE IF FI.Parameters.a > FI.Parameters.R THEN Raised("ValueError", FI.Globals)
    ELSE IF HasINDET(frame) THEN Raised("IndeterminateError", FI.Globals)
    ELSE IF TotalRows(frame, FI) = {} THEN Raised("ZeroDivisionError", FI.Globals)
    ELSE Returned([rows |-> frame.rows, columns |-> WilsonColumns], "global_params")

\* where the code of a model's author may raise
FailPoints == {"none", "before Globals", "after Globals"}

\* a custom model written after the class-style example: computes, updates
\* FeatureInput['Globals'], computes the stresses, returns (df, FeatureInput)
Custom_LT(frame, FI, fail) ==
    IF fail = "before Globals" THEN Raised("AuthorError", FI.Globals)
    ELSE IF fail = "after Globals" THEN Raised("AuthorError", "global_params")
    ELSE Returned([rows |-> frame.rows, columns |-> CustomColumns], "global_params")

\* the _use_model_ hook of the model named in FeatureInput['Model']
use_model(frame, FI, fail) ==
    IF FI.Model = "Wilson_LT" THEN Wilson_LT(frame, FI) ELSE Custom_LT(frame, FI, fail)

\* a model module holds the hook as the method of a class Model or as a function
Styles == {"class", "function"}

NoPlugin == [style |-> "none", fail |-> "none"]

\* the places where the named model may fail on its author's account
FailPointsOf(model) == IF model = "Custom_LT" THEN FailPoints ELSE {"none"}

\* mutant: only the hook of a class Model is found
handshake_class_only(frame, FI, fail, style) ==
    IF style = "class" THEN use_model(frame, FI, fail)
    ELSE Raised("AttributeError", FI.Globals)

\* theories.handshake: finds the model named in FeatureInput['Model'], as a
\* class or as a function, and calls its hook with the Laminate
handshake(frame, FI, fail, style) ==
    CASE style = "class"    -> use_model(frame, FI, fail)
      [] style = "function" -> use_model(frame, FI, fail)

(***************************************************************************)
(* The invocation.                                                         *)
(***************************************************************************)
TypeOK ==
    /\ state \in {"Unbuilt", "Snapshot", "LFrame", "Handshake",
                  "LMFrameComplete", "LFrameRolledBack"}
    /\ step \in {"start", "parsed", "configured", "built", "failed"}
    /\ error \in {"None", "GeometryParseError", "ValidationError"}
    /\ returned \in {"nothing", "table"}
    /\ nhandshakes \in 0..1
    /\ plugin.style \in Styles \cup {"none"} /\ plugin.fail \in FailPoints
    /\ case_materials \in MaterialsSettings

\* get_FeatureInput not called yet
NoArguments == [load_params |-> <<>>, mat_props |-> <<>>, model |-> "None"]

\* no concurrent invocations
NoPair == [heap |-> <<>>, workers |-> <<>>]

InitWith(inputs) ==
    /\ geo_input \in inputs
    /\ case_materials \in MaterialsSettings
    /\ FeatureInput = NoFeatureInput
    /\ StackTuple = NoStack
    /\ Snapshot = <<>>
    /\ LFrame = NoFrame
    /\ LMFrame = NoFrame
    /\ state = "Unbuilt"
    /\ step = "start"
    /\ error = "None"
    /\ hook = NoHook
    /\ plugin = NoPlugin
    /\ arguments = NoArguments
    /\ log = <<>>
    /\ returned = "nothing"
    /\ nhandshakes = 0

Init == InitWith(GeoInputs) /\ pair = NoPair

\* G = Geometry(geo_input)
ParseGeometry ==
    /\ step = "start"
    /\ IF is_valid(geo_input)
       THEN /\ FeatureInput' = [FeatureInput EXCEPT !.Geometry = parse_geometry(geo_input)]
            /\ step' = "parsed"
            /\ error' = error
       ELSE /\ error' = "GeometryParseError"
            /\ step' = "failed"
            /\ FeatureInput' = FeatureInput
    /\ UNCHANGED <<pair, geo_input, case_materials, arguments, plugin, StackTuple, Snapshot, LFrame, LMFrame, state, hook,
                   log, returned, nhandshakes>>

\* FeatureInput = get_FeatureInput(G, load_params, mat_props, materials, model)
BuildFeatureInput ==
    /\ step = "parsed"
    /\ \E load_params \in LoadParams, mat_props \in MatProps, model \in Models :
          /\ arguments' = [load_params |-> load_params, mat_props |-> mat_props,
                           model |-> model]
          /\ IF load_params_valid(load_params) /\ mat_props_valid(mat_props)
             THEN /\ FeatureInput' = get_FeatureInput(FeatureInput.Geometry, load_params,
                                                      mat_props, case_materials, model)
                  /\ step' = "configured"
                  /\ error' = error
             ELSE /\ error' = "ValidationError"
                  /\ step' = "failed"
                  /\ FeatureInput' = FeatureInput
    /\ UNCHANGED <<pair, geo_input, case_materials, plugin, StackTuple, Snapshot, LFrame, LMFrame, state, hook,
                   log, returned, nhandshakes>>

\* Phase 1: Stack(FeatureInput).StackTuple and the Snapshot
BuildStack ==
    /\ state = "Unbuilt"
    /\ step = "configured"
    /\ StackTuple' = identify_geometry(decode_geometry(FeatureInput.Geometry))
    /\ Snapshot' = build_snapshot(StackTuple', FeatureInput.Materials)
    /\ state' = "Snapshot"
    /\ step' = "built"
    /\ UNCHANGED <<pair, geo_input, case_materials, arguments, plugin, FeatureInput, LFrame, LMFrame, error, hook, log,
                   returned, nhandshakes>>

\* Phase 2: Laminate._build_LFrame
BuildLFrame ==
    /\ state = "Snapshot"
    /\ LFrame' = build_LFrame(Snapshot, FeatureInput.Parameters.p)
    /\ state' = "LFrame"
    /\ UNCHANGED <<pair, geo_input, case_materials, arguments, plugin, FeatureInput, StackTuple, Snapshot, LMFrame, step,
                   error, hook, log, returned, nhandshakes>>

\* mutant: the FeatureInput is replaced by what the hook returned, nothing if it raised
HandshakeReplacesFeatureInput ==
    /\ state = "LFrame"
    /\ \E style \in Styles, fail \in FailPointsOf(FeatureInput.Model) :
          /\ hook' = handshake(LFrame, FeatureInput, fail, style)
          /\ plugin' = [style |-> style, fail |-> fail]
          /\ FeatureInput' = IF hook'.status = "returned"
                             THEN [FeatureInput EXCEPT !.Globals = hook'.Globals]
                             ELSE NoFeatureInput
    /\ state' = "Handshake"
    /\ nhandshakes' = nhandshakes + 1
    /\ UNCHANGED <<pair, geo_input, case_materials, arguments, StackTuple, Snapshot, LFrame, LMFrame, step,
                   error, log, returned>>

\* mutant: the hook writes its columns on the LFrame itself, not on a copy
HandshakeOnTheLFrameItself ==
    /\ state = "LFrame"
    /\ \E style \in Styles, fail \in FailPointsOf(FeatureInput.Model) :
          /\ hook' = handshake(LFrame, FeatureInput, fail, style)
          /\ plugin' = [style |-> style, fail |-> fail]
          /\ FeatureInput' = [FeatureInput EXCEPT !.Globals = hook'.Globals]
          /\ LFrame' = IF hook'.status = "returned" THEN hook'.df ELSE LFrame
    /\ state' = "Handshake"
    /\ nhandshakes' = nhandshakes + 1
    /\ UNCHANGED <<pair, geo_input, case_materials, arguments, StackTuple, Snapshot, LMFrame, step, error,
                   log, returned>>

\* Phase 3: LaminateModel._build_LMFrame calls theories.handshake(self)
Handshake ==
    /\ state = "LFrame"
    /\ \E style \in Styles, fail \in FailPointsOf(FeatureInput.Model) :
          /\ hook' = handshake(LFrame, FeatureInput, fail, style)
          /\ plugin' = [style |-> style, fail |-> fail]
          /\ FeatureInput' = [FeatureInput EXCEPT !.Globals = hook'.Globals]
    /\ state' = "Handshake"
    /\ nhandshakes' = nhandshakes + 1
    /\ UNCHANGED <<pair, geo_input, case_materials, arguments, StackTuple, Snapshot, LFrame, LMFrame, step, error,
                   log, returned>>

\* mutant: the LMFrame is updated but no table is handed to the caller
UpdateLMFrameNotReturned ==
    /\ state = "Handshake"
    /\ hook.status = "returned"
    /\ LMFrame' = hook.df
    /\ state' = "LMFrameComplete"
    /\ UNCHANGED <<pair, geo_input, case_materials, arguments, plugin, FeatureInput, StackTuple, Snapshot, LFrame, step, error,
                   hook, log, returned, nhandshakes>>

\* post-handshake: the object is updated with the new LaminateModel and FeatureInput
UpdateLMFrame ==
    /\ state = "Handshake"
    /\ hook.status = "returned"
    /\ LMFrame' = hook.df
    /\ state' = "LMFrameComplete"
    /\ returned' = "table"
    /\ UNCHANGED <<pair, geo_input, case_materials, arguments, plugin, FeatureInput, StackTuple, Snapshot, LFrame, step, error,
                   hook, log, nhandshakes>>

\* mutant: the exception of the model reaches the caller
RollbackPropagates ==
    /\ state = "Handshake"
    /\ hook.status = "raised"
    /\ error' = hook.exc
    /\ state' = "LFrameRolledBack"
    /\ UNCHANGED <<pair, geo_input, case_materials, arguments, plugin, FeatureInput, StackTuple, Snapshot, LFrame, LMFrame, step,
                   hook, log, returned, nhandshakes>>

\* mutant: the exception is swallowed without a report
RollbackSilently ==
    /\ state = "Handshake"
    /\ hook.status = "raised"
    /\ LMFrame' = LFrame
    /\ state' = "LFrameRolledBack"
    /\ returned' = "table"
    /\ UNCHANGED <<pair, geo_input, case_materials, arguments, plugin, FeatureInput, StackTuple, Snapshot, LFrame, step, error,
                   hook, log, nhandshakes>>

\* mutant: after a model error the handshake is tried again
RollbackRetry ==
    /\ state = "Handshake"
    /\ hook.status = "raised"
    /\ log' = Append(log, [error |-> "ModelError", cause |-> hook.exc])
    /\ state' = "LFrame"
    /\ UNCHANGED <<pair, geo_input, case_materials, arguments, plugin, FeatureInput, StackTuple, Snapshot, LFrame, LMFrame, step,
                   error, hook, returned, nhandshakes>>

\* the exception is caught, a ModelError is raised and reported with its traceback,
\* and the object is rolled back to the Laminate: LMFrame is set to the LFrame
Rollback ==
    /\ state = "Handshake"
    /\ hook.status = "raised"
    /\ log' = Append(log, [error |-> "ModelError", cause |-> hook.exc])
    /\ LMFrame' = LFrame
    /\ state' = "LFrameRolledBack"
    /\ returned' = "table"
    /\ UNCHANGED <<pair, geo_input, case_materials, arguments, plugin, FeatureInput, StackTuple, Snapshot, LFrame, step, error,
                   hook, nhandshakes>>

Next ==
    \/ ParseGeometry
    \/ BuildFeatureInput
    \/ BuildStack
    \/ BuildLFrame
    \/ Handshake
    \/ UpdateLMFrame
    \/ Rollback

Spec == Init /\ [][Next]_vars

\* the invocation is one sequential call: each step follows when the one before it
\* has returned, and the call of the model returns or raises
FairSpec == Spec /\ WF_vars(Next)

\* the geometry specification alone: every accepted way of writing a geometry string
InitGeo == InitWith(GeoInputsAll) /\ pair = NoPair

NextGeo == ParseGeometry

SpecGeo == InitGeo /\ [][NextGeo]_vars

(***************************************************************************)
(* Concurrent invocations.  A FeatureInput is a dict on the heap; a        *)
(* Laminate keeps a reference to the dict it was given, and the hook       *)
(* assigns FeatureInput['Globals'] through that reference.  Worker 1 owns  *)
(* dict 1; workers 2 and 3 were given the same dict 2.                     *)
(***************************************************************************)
Workers == 1..3

FeatureInputOf == <<1, 2, 2>>

\* the defaults object every FeatureInput is built from
PairDefaults ==
    [geo_input  |-> BracketForm(400, <<200>>, 800),
     mat_props  |-> CHOOSE q \in QuickForms : TRUE,
     load_params |-> {lp \in LoadParams : /\ DOMAIN lp = RequiredParameters
                                            /\ lp["p"] = 3 /\ lp["R"] = 120
                                            /\ lp["a"] = 75 /\ lp["r"] \in {0, 2}}]

\* the FeatureInput dicts built from the defaults before the workers start
PairFeatureInputs ==
    {get_FeatureInput(parse_geometry(PairDefaults.geo_input), lp,
                      PairDefaults.mat_props, <<>>, model) :
        lp \in PairDefaults.load_params, model \in Models}

NoWorker ==
    [pc |-> "start", fail |-> "none", LFrame |-> NoFrame, hook |-> NoHook,
     assigned |-> FALSE, LMFrame |-> NoFrame]

\* each dict with the call that built the dict now under its 'Globals' key
PairInits ==
    {[heap    |-> <<[dict |-> d1, globals_by |-> 0], [dict |-> d2, globals_by |-> 0]>>,
      workers |-> [i \in Workers |-> NoWorker]] :
        d1 \in PairFeatureInputs, d2 \in PairFeatureInputs}

InitPair ==
    /\ InitWith({PairDefaults.geo_input})
    /\ case_materials = <<>>
    /\ pair \in PairInits

\* Laminate(FeatureInput): Stack, Snapshot and LFrame of worker i
PairBuildLFrame(i) ==
    /\ pair.workers[i].pc = "start"
    /\ LET FI == pair.heap[FeatureInputOf[i]].dict
           stack == identify_geometry(decode_geometry(FI.Geometry))
           frame == build_LFrame(build_snapshot(stack, FI.Materials), FI.Parameters.p)
       IN  pair' = [pair EXCEPT !.workers[i].LFrame = frame, !.workers[i].pc = "LFrame"]

\* the hook is called: it copies the table, checks and computes on the copy
PairCall(i) ==
    /\ pair.workers[i].pc = "LFrame"
    /\ LET FI == [pair.heap[FeatureInputOf[i]].dict EXCEPT !.Globals = "None"]
       IN  \E fail \in FailPointsOf(FI.Model) :
              LET result == use_model(pair.workers[i].LFrame, FI, fail)
              IN  pair' = [pair EXCEPT !.workers[i].fail = fail,
                                       !.workers[i].hook = result,
                                       !.workers[i].pc =
                                           IF result.Globals = "None"
                                           THEN "hook done" ELSE "assigning"]

\* mutant: the hook keeps the FeatureInput at module level, one for all Laminates
PairAssignGlobals_module_level(i) ==
    /\ pair.workers[i].pc = "assigning"
    /\ pair' = [pair EXCEPT
                  !.heap[1].dict.Globals = pair.workers[i].hook.Globals,
                  !.heap[1].globals_by = i,
                  !.workers[i].assigned = TRUE,
                  !.workers[i].pc = "hook done"]

\* FeatureInput['Globals'] = global_params, through the Laminate's reference
PairAssignGlobals(i) ==
    /\ pair.workers[i].pc = "assigning"
    /\ pair' = [pair EXCEPT
                  !.heap[FeatureInputOf[i]].dict.Globals = pair.workers[i].hook.Globals,
                  !.heap[FeatureInputOf[i]].globals_by = i,
                  !.workers[i].assigned = TRUE,
                  !.workers[i].pc = "hook done"]

\* the hook returned: LMFrame = the returned table
PairUpdate(i) ==
    /\ pair.workers[i].pc = "hook done"
    /\ pair.workers[i].hook.status = "returned"
    /\ pair' = [pair EXCEPT !.workers[i].LMFrame = pair.workers[i].hook.df,
                            !.workers[i].pc = "LMFrameComplete"]

\* the hook raised: LMFrame = LFrame
PairRollback(i) ==
    /\ pair.workers[i].pc = "hook done"
    /\ pair.workers[i].hook.status = "raised"
    /\ pair' = [pair EXCEPT !.workers[i].LMFrame = pair.workers[i].LFrame,
                            !.workers[i].pc = "LFrameRolledBack"]

single == <<geo_input, FeatureInput, StackTuple, Snapshot, LFrame, LMFrame, state, step,
            error, hook, log, returned, nhandshakes, case_materials, plugin, arguments>>

NextPair ==
    /\ UNCHANGED single
    /\ \E i \in Workers :
          \/ PairBuildLFrame(i)
          \/ PairCall(i)
          \/ PairAssignGlobals(i)
          \/ PairUpdate(i)
          \/ PairRollback(i)

SpecPair == InitPair /\ [][NextPair]_vars

(***************************************************************************)
(* Properties.                                                             *)
(***************************************************************************)
G == FeatureInput.Geometry

nplies == StackTuple.nplies

p == FeatureInput.Parameters.p

Built == state \in {"LFrame", "Handshake", "LMFrameComplete", "LFrameRolledBack"}

Final == state \in {"LMFrameComplete", "LFrameRolledBack"}

Odd(n) == n % 2 = 1

\* C1: when the model raises, also after it assigned FeatureInput['Globals'], the
\* LMFrame equals the LFrame, has no model columns, and Globals is unset
C1_RollbackLeavesGlobalsUnset ==
    state = "LFrameRolledBack" =>
        /\ LMFrame = LFrame
        /\ LMFrame.columns = {}
        /\ FeatureInput.Globals = "None"

Reported(exc) ==
    \E i \in 1..Len(log) : log[i].error = "ModelError" /\ log[i].cause = exc

\* C2: an error raised inside the model never reaches the caller: the handshake
\* ends in the rollback, which returns the unmodeled LFrame as LMFrame and reports
\* a ModelError for the error the model raised
C2_ModelErrorIsolated ==
    hook.status = "raised" =>
        /\ error = "None"
        /\ state \in {"Handshake", "LFrameRolledBack"}
        /\ state = "Handshake" => ENABLED Rollback
        /\ state = "LFrameRolledBack" =>
              /\ returned = "table"
              /\ LMFrame = LFrame
              /\ LMFrame.columns = {}
              /\ Len(LMFrame.rows) = nplies * p
              /\ Reported(hook.exc)

\* Scenario D: r = 0 divides by zero inside the model
C2_Witness ==
    /\ state = "LFrameRolledBack"
    /\ FeatureInput.Parameters.r = 0
    /\ hook.exc = "ZeroDivisionError"
    /\ Reported("ZeroDivisionError")

ArchitectureOrder ==
    { <<"Unbuilt", "Snapshot">>, <<"Snapshot", "LFrame">>, <<"LFrame", "Handshake">>,
      <<"Handshake", "LMFrameComplete">>, <<"Handshake", "LFrameRolledBack">> }

\* C3: the invocation moves only along Unbuilt -> Snapshot -> LFrame -> Handshake ->
\* {LMFrameComplete | LFrameRolledBack}; the handshake is attempted at most once, on
\* entering Handshake; the two final states have no outgoing transition
C3_SinglePass ==
    [][ /\ state' # state => <<state, state'>> \in ArchitectureOrder
        /\ nhandshakes' # nhandshakes =>
              /\ nhandshakes = 0 /\ nhandshakes' = 1
              /\ state = "LFrame" /\ state' = "Handshake"
        /\ Final => UNCHANGED vars ]_vars

C3_Witness == state = "LMFrameComplete" /\ nhandshakes = 1 /\ LMFrame.columns # {}

NpliesOf(geometry) ==
    2 * ((IF geometry.outer > 0 THEN 1 ELSE 0)
            + Cardinality({i \in 1..Len(geometry.inner) : geometry.inner[i] > 0}))
        + (IF geometry.middle > 0 THEN 1 ELSE 0)

\* C5: nplies of the Stack built from a Geometry is
\* 2*((1 if outer > 0) + number of inner thicknesses > 0) + (1 if middle > 0)
C5_NpliesFormula ==
    state # "Unbuilt" =>
        /\ nplies = NpliesOf(G)
        /\ Len(StackTuple.order) = nplies
        /\ Len(Snapshot) = nplies

\* zero-thickness placeholders: '400-[0,0]-0' has 2 plies
C5_Witness ==
    /\ state # "Unbuilt"
    /\ G.outer = 400 /\ G.inner = <<0, 0>> /\ G.middle = 0
    /\ nplies = 2

\* C6: the geometry string of a parsed Geometry parses again, to a Geometry with
\* the same string, outer, inner, middle and nplies
C6_RoundTrip ==
    step = "parsed" =>
        /\ is_valid(G.string)
        /\ parse_geometry(G.string).string = G.string
        /\ parse_geometry(G.string).outer = G.outer
        /\ parse_geometry(G.string).inner = G.inner
        /\ parse_geometry(G.string).middle = G.middle
        /\ identify_geometry(decode_geometry(parse_geometry(G.string))).nplies
              = identify_geometry(decode_geometry(G)).nplies

\* '400-200-400S': shorthand with the marker, not its own geometry string
C6_Witness ==
    /\ step = "parsed"
    /\ G.symmetric
    /\ G.middle = 800
    /\ geo_input # G.string
    /\ Len(geo_input) < Len(G.string)

RowsOfLayer(frame, layer) == {k \in 1..Len(frame.rows) : frame.rows[k].layer_ = layer}

\* C7: a built LFrame has exactly p rows for each of the nplies layers, nplies*p rows
\* in all
C7_RowsPerLayer ==
    Built =>
        /\ Len(LFrame.rows) = nplies * p
        /\ \A k \in 1..Len(LFrame.rows) : LFrame.rows[k].layer_ \in 1..nplies
        /\ \A layer \in 1..nplies : Cardinality(RowsOfLayer(LFrame, layer)) = p

\* Scenario B: '400-[200]-800' with p = 5 has 25 rows
C7_Witness ==
    /\ Built
    /\ G.outer = 400 /\ G.inner = <<200>> /\ G.middle = 800
    /\ p = 5
    /\ Len(LFrame.rows) = 25

NeutralAxisRows(frame) ==
    {k \in 1..Len(frame.rows) : frame.rows[k].label_ = "neut. axis"}

\* C8: a built LFrame has exactly one neutral-axis row, in the middle layer, when
\* nplies and p are odd, and none otherwise
C8_NeutralAxisRow ==
    Built =>
        IF Odd(nplies) /\ Odd(p)
        THEN /\ Cardinality(NeutralAxisRows(LFrame)) = 1
             /\ \A k \in NeutralAxisRows(LFrame) :
                   /\ LFrame.rows[k].layer_ = (nplies + 1) \div 2
                   /\ LFrame.rows[k].type_ = "middle"
        ELSE NeutralAxisRows(LFrame) = {}

C8_Witness ==
    /\ Built
    /\ nplies = 5 /\ p = 3
    /\ NeutralAxisRows(LFrame) = {8}

ParametersValid ==
    /\ FeatureInput.Parameters.r > 0
    /\ FeatureInput.Parameters.a > 0
    /\ FeatureInput.Parameters.a <= FeatureInput.Parameters.R

TypeRank(ltype) == CASE ltype = "outer" -> 1 [] ltype = "inner" -> 2 [] OTHER -> 3

Positive(t) == t > 0

\* C11: the stack is keyed 1..nplies without gaps and holds no zero-thickness layer;
\* bottom to top it reads outer, inner_1..inner_n, middle, inner_n..inner_1, outer,
\* so that (thickness, type) reads the same from the bottom and from the top
C11_StackOrderMirrored ==
    state # "Unbuilt" =>
        LET order == StackTuple.order
            lower == SelectSeq(<<G.outer>> \o G.inner \o <<G.middle>>, Positive)
        IN  /\ DOMAIN order = 1..nplies
            /\ \A i \in 1..nplies :
                  /\ order[i].t > 0
                  /\ order[i] = order[nplies + 1 - i]
            /\ \A i \in 1..Len(lower) : order[i].t = lower[i]
            /\ nplies \in {2 * Len(lower), 2 * Len(lower) - 1}
            /\ \A i, j \in 1..Len(lower) :
                  i < j => TypeRank(order[i].type) <= TypeRank(order[j].type)
            /\ \A i \in 1..nplies :
                  /\ order[i].type = "outer" => order[i].t = G.outer
                  /\ order[i].type = "middle" => order[i].t = G.middle /\ 2 * i = nplies + 1

C11_Witness ==
    /\ state # "Unbuilt"
    /\ StackTuple.order = << Layer(400, "outer"), Layer(100, "inner"), Layer(200, "inner"),
                             Layer(800, "middle"), Layer(200, "inner"), Layer(100, "inner"),
                             Layer(400, "outer") >>

LabelRows(frame, layer, label) ==
    {k \in RowsOfLayer(frame, layer) : frame.rows[k].label_ = label}

ARowOf(frame, layer) ==
    (CHOOSE k \in RowsOfLayer(frame, layer) : TRUE)

\* C13: with p >= 2 every layer but the middle one has one interfacial row, one
\* discontinuity row and p - 2 internal rows; the middle layer of an odd-ply
\* laminate has two interfacial rows and no discontinuity row (so a monolith has
\* none); with p = 1 no row is a discontinuity; the labels are the same whatever
\* the model and whether it returned or raised
C13_PointTypesPerLayer ==
    Built =>
        /\ \A layer \in 1..nplies :
              LET ltype == LFrame.rows[ARowOf(LFrame, layer)].type_
                  count(label) == Cardinality(LabelRows(LFrame, layer, label))
              IN  /\ (p >= 2 /\ ltype # "middle") =>
                        /\ count("interface") = 1
                        /\ count("discont.") = 1
                        /\ count("internal") = p - 2
                  /\ (p >= 2 /\ ltype = "middle") =>
                        /\ count("interface") = 2
                        /\ count("discont.") = 0
                        /\ 2 * layer = nplies + 1
                  /\ p = 1 => count("discont.") = 0
        /\ Final =>
              /\ Len(LMFrame.rows) = Len(LFrame.rows)
              /\ \A k \in 1..Len(LFrame.rows) : LMFrame.rows[k].label_ = LFrame.rows[k].label_

C13_Witness ==
    /\ state = "LMFrameComplete"
    /\ nplies = 5 /\ p = 4
    /\ [k \in 1..4 |-> LMFrame.rows[k].label_]
          = <<"interface", "internal", "internal", "discont.">>
    /\ [k \in 1..4 |-> LMFrame.rows[8 + k].label_]
          = <<"interface", "internal", "internal", "interface">>
    /\ [k \in 1..4 |-> LMFrame.rows[16 + k].label_]
          = <<"discont.", "internal", "internal", "interface">>

MaterialOrder == IF case_materials = <<>> THEN <<"HA", "PSu">> ELSE case_materials

Cycled(i) == MaterialOrder[((i - 1) % Len(MaterialOrder)) + 1]

\* C14: layer i of the stack, bottom to top, gets the material
\* order[(i-1) mod len(order)], where order is the sorted keys of the material
\* properties or, when set, the user's list; a list shorter than the stack is cycled
C14_MaterialsCycled ==
    state # "Unbuilt" =>
        /\ FeatureInput.Materials = MaterialOrder
        /\ Len(Snapshot) = nplies
        /\ \A i \in 1..Len(Snapshot) : Snapshot[i].matl_ = Cycled(i)
        /\ Built =>
              \A k \in 1..Len(LFrame.rows) :
                  LFrame.rows[k].matl_ = Cycled(LFrame.rows[k].layer_)

C14_Witness ==
    /\ Built
    /\ case_materials = <<"PSu", "HA">>
    /\ nplies = 5
    /\ [i \in 1..5 |-> Snapshot[i].matl_] = <<"PSu", "HA", "PSu", "HA", "PSu">>

DefaultSnapshot == build_snapshot(StackTuple, default_materials(FeatureInput.Properties))

DefaultLFrame == build_LFrame(DefaultSnapshot, p)

\* C15: with the material order overridden, nplies, the rows of the Snapshot and of
\* the LFrame and everything in them but matl_ are what the default order gives
C15_OverrideChangesOnlyMatl ==
    state # "Unbuilt" =>
        LET snapshot == DefaultSnapshot
            frame == IF Built THEN DefaultLFrame ELSE NoFrame
        IN  /\ nplies = NpliesOf(G)
            /\ Len(Snapshot) = Len(snapshot)
            /\ \A i \in 1..Len(Snapshot) :
                  /\ Snapshot[i].layer_ = snapshot[i].layer_
                  /\ Snapshot[i].type_ = snapshot[i].type_
                  /\ Snapshot[i].t_ = snapshot[i].t_
            /\ Built =>
                  /\ Len(LFrame.rows) = Len(frame.rows)
                  /\ \A k \in 1..Len(LFrame.rows) :
                        [LFrame.rows[k] EXCEPT !.matl_ = "any"]
                            = [frame.rows[k] EXCEPT !.matl_ = "any"]

\* Scenario E: the order ['PSu', 'HA'] on '400-[200]-800'
C15_Witness ==
    /\ Built
    /\ case_materials = <<"PSu", "HA">>
    /\ nplies = 5
    /\ LFrame.rows[1].matl_ = "PSu" /\ DefaultLFrame.rows[1].matl_ = "HA"
    /\ LFrame.rows[1].t_ = 400 /\ DefaultLFrame.rows[1].t_ = 400

Count(s, c) == Cardinality({i \in 1..Len(s) : s[i] = c})

DashInBrackets(s) ==
    \E i \in 1..Len(s) :
        /\ s[i] = "-"
        /\ \E j \in 1..(i - 1) : s[j] = "["
        /\ \E j \in (i + 1)..Len(s) : s[j] = "]"

\* a character no thickness is written with
NonNumeric(s) ==
    \E i \in 1..Len(s) : s[i] \notin Digits \cup {".", "-", "[", "]", ",", " ", "S"}

\* a minus sign in front of a thickness
Negative(s) ==
    \/ Len(s) >= 1 /\ s[1] = "-"
    \/ \E i \in 2..Len(s) : s[i] = "-" /\ s[i - 1] \in {"-", "[", ","}

ShorthandInputs ==
    {ShortForm(t[1], t[2], t[3]) : t \in {u \in Thicknesses(InnerValues) : Len(u[2]) = 1}}
        \cup {ShortSymForm(t[1], t[2], t[3]) :
                t \in {u \in Thicknesses(InnerValues) : Len(u[2]) = 1}}

\* 'o-i-m' written as 'o-[i]-m'
Bracketed(s) ==
    LET t == Split(s, "-")
    IN  t[1] \o <<"-", "[">> \o t[2] \o <<"]", "-">> \o t[3]

\* C17: the shorthand 'o-i-m' parses to the Geometry and geometry string of
\* 'o-[i]-m'; the inner field is a list of one thickness
C17_ShorthandNormalised ==
    (step # "start" /\ geo_input \in ShorthandInputs) =>
        /\ step = "parsed"
        /\ Count(geo_input, "[") = 0
        /\ G = parse_geometry(Bracketed(geo_input))
        /\ G.inner = <<StrToNat(Split(geo_input, "-")[2])>>
        /\ Count(G.string, "[") = 1 /\ Count(G.string, "]") = 1

\* '400-200-800' is '400.0-[200.0]-800.0'
C17_Witness ==
    /\ step = "parsed"
    /\ geo_input = <<"4","0","0","-","2","0","0","-","8","0","0">>
    /\ G.inner = <<200>>
    /\ G.string = <<"4","0","0",".","0","-","[","2","0","0",".","0","]","-","8","0","0",".","0">>

Marked(s) == Len(s) >= 1 /\ s[Len(s)] = "S"

\* the half thickness written before the marker
MarkedHalf(s) ==
    LET t == Split(s, "-")
    IN  StrToNat(SubSeq(t[3], 1, Len(t[3]) - 1))

\* 'o-i-mS' written with the full middle thickness: 'o-i-2m'
Unmarked(s) ==
    LET t == Split(s, "-")
    IN  t[1] \o <<"-">> \o t[2] \o <<"-">> \o NatToStr(2 * MarkedHalf(s))

\* C18: a middle token m followed by the marker S parses to the full middle
\* thickness 2*m: outer, inner, middle and nplies are those of the unmarked string
\* with middle 2*m; the half thickness is never what Geometry holds
C18_MarkerMeansHalfMiddle ==
    (step # "start" /\ Marked(geo_input) /\ geo_input \notin InvalidInputs) =>
        /\ step = "parsed"
        /\ G.middle = 2 * MarkedHalf(geo_input)
        /\ G.outer = parse_geometry(Unmarked(geo_input)).outer
        /\ G.inner = parse_geometry(Unmarked(geo_input)).inner
        /\ G.middle = parse_geometry(Unmarked(geo_input)).middle
        /\ NpliesOf(G) = NpliesOf(parse_geometry(Unmarked(geo_input)))
        /\ identify_geometry(decode_geometry(G)).nplies = NpliesOf(G)
        /\ MarkedHalf(geo_input) > 0 => G.middle # MarkedHalf(geo_input)

\* '400-200-400S' is '400-200-800'
C18_Witness ==
    /\ step = "parsed"
    /\ geo_input = <<"4","0","0","-","2","0","0","-","4","0","0","S">>
    /\ G.outer = 400 /\ G.inner = <<200>> /\ G.middle = 800

Ascending(a, b) == a.num * b.den < b.num * a.den

InRowOrder(frame) ==
    LET n == Len(frame.rows)
    IN  /\ frame.rows[1].layer_ = 1
        /\ frame.rows[n].layer_ = nplies
        /\ \A k \in 1..(n - 1) :
              /\ frame.rows[k + 1].layer_ \in {frame.rows[k].layer_, frame.rows[k].layer_ + 1}
              /\ frame.rows[k + 1].layer_ = frame.rows[k].layer_ =>
                    Ascending(frame.rows[k].k_, frame.rows[k + 1].k_)

InputFields == {"Geometry", "Parameters", "Properties", "Materials", "Model"}

InputFieldsKept ==
    state \in {"LFrame", "Handshake"} =>
        \A f \in InputFields : FeatureInput'[f] = FeatureInput[f]

\* C20: from the built LFrame on, through the handshake and the update or the
\* rollback that ends it, the FeatureInput keeps its Geometry, Parameters,
\* Properties, Materials and Model; only Globals may change
C20_HandshakeChangesOnlyGlobals == [][InputFieldsKept]_vars

C20_Witness ==
    /\ state = "LMFrameComplete"
    /\ FeatureInput.Model = "Wilson_LT"
    /\ FeatureInput.Globals = "global_params"
    /\ FeatureInput.Parameters = [R |-> 120, a |-> 75, p |-> 5, P_a |-> 1, r |-> 2]
    /\ FeatureInput.Materials = <<"HA", "PSu">>
    /\ G.middle = 800

HandshakeDone == state \in {"Handshake", "LMFrameComplete", "LFrameRolledBack"}

\* the FeatureInput as the handshake received it
FeatureInputBefore == [FeatureInput EXCEPT !.Globals = "None"]

Owns(i) == \A j \in Workers \ {i} : FeatureInputOf[j] # FeatureInputOf[i]

PairFinal(i) == pair.workers[i].pc \in {"LMFrameComplete", "LFrameRolledBack"}

\* what the invocation of worker i gives when it runs alone
Alone(i) ==
    LET w == pair.workers[i]
        FI == [pair.heap[FeatureInputOf[i]].dict EXCEPT !.Globals = "None"]
        result == use_model(w.LFrame, FI, w.fail)
    IN  [LMFrame    |-> IF result.status = "returned" THEN result.df ELSE w.LFrame,
         Globals    |-> result.Globals,
         globals_by |-> IF result.Globals = "None" THEN 0 ELSE i]

C24_TrueThicknessConstant ==
    Built =>
        LET snapshot == Snapshot
            stack == StackTuple
        IN  /\ \A k \in 1..Len(LFrame.rows) :
                  LFrame.rows[k].t_ = stack.order[LFrame.rows[k].layer_].t
            /\ state = "LFrame" =>
                  \A q \in 1..MaxP :
                      LET frame == build_LFrame(snapshot, q)
                      IN  /\ Len(frame.rows) = stack.nplies * q
                          /\ \A k \in 1..Len(frame.rows) :
                                frame.rows[k].t_ = stack.order[frame.rows[k].layer_].t

C24_Witness ==
    /\ Built
    /\ p = 3
    /\ nplies = 5
    /\ \A k \in 4..6 : LFrame.rows[k].layer_ = 2 /\ LFrame.rows[k].t_ = 200
    /\ \A k \in 7..9 : LFrame.rows[k].layer_ = 3 /\ LFrame.rows[k].t_ = 800
    /\ LFrame.rows[4].k_ # LFrame.rows[6].k_

Called == arguments # NoArguments

\* a Quick Form dict with both values for every material
IsQuickForm(mat_props) ==
    /\ ~is_standard(mat_props)
    /\ DOMAIN mat_props # {}
    /\ \A m \in DOMAIN mat_props : Len(mat_props[m]) = 2

\* a Standard Form dict with the same materials under Modulus and Poissons
IsStandardForm(mat_props) ==
    /\ is_standard(mat_props)
    /\ DOMAIN mat_props.Modulus = DOMAIN mat_props.Poissons
    /\ DOMAIN mat_props.Modulus # {}

C26_GlobalsIffModelColumns ==
    Final => (FeatureInput.Globals # "None" <=> LMFrame.columns # {})

Fatal == step = "failed" /\ error \in {"GeometryParseError", "ValidationError"}

Complete == state = "LMFrameComplete"

RolledBack == state = "LFrameRolledBack"

ExactlyOneOutcome ==
    \/ Fatal /\ ~Complete /\ ~RolledBack
    \/ ~Fatal /\ Complete /\ ~RolledBack
    \/ ~Fatal /\ ~Complete /\ RolledBack

\* C27: every invocation eventually reaches exactly one final outcome, a fatal
\* error, the complete LMFrame or the rolled-back LFrame, and keeps it; and
\* every invocation that built an LFrame ends by returning a table
C27_Terminates ==
    /\ <>[]ExactlyOneOutcome
    /\ []((Fatal \/ Complete \/ RolledBack) => ExactlyOneOutcome)
    /\ (state = "LFrame") ~> (Final /\ returned = "table")

C27_Witness ==
    /\ RolledBack
    /\ returned = "table"
    /\ hook.exc = "IndeterminateError"
    /\ error = "None"

\* the ID and dimensional columns of the model; d_, intf_, Z_ and z_ are
\* functions of the columns kept here
DimensionalColumns == {"layer_", "side_", "matl_", "type_", "t_", "label_", "h_", "k_"}

ZeroInput == FeatureInput.Parameters.r = 0 \/ FeatureInput.Parameters.a = 0

InvalidInput ==
    \/ FeatureInput.Parameters.r < 0
    \/ FeatureInput.Parameters.a < 0
    \/ FeatureInput.Parameters.a > FeatureInput.Parameters.R

\* C29: Wilson_LT checks its inputs before it writes anything: it raises
\* ZeroDivisionError for r = 0 or a = 0, ValueError for r < 0, a < 0 or a > R,
\* IndeterminateError for INDET in the side column, the first check that
\* applies deciding; in each case no column is added to the table and
\* FeatureInput['Globals'] is not assigned
C29_ChecksBeforeWriting ==
    (HandshakeDone /\ FeatureInput.Model = "Wilson_LT") =>
        /\ ZeroInput => hook.exc = "ZeroDivisionError"
        /\ (~ZeroInput /\ InvalidInput) => hook.exc = "ValueError"
        /\ (~ZeroInput /\ ~InvalidInput /\ HasINDET(LFrame)) =>
              hook.exc = "IndeterminateError"
        /\ (ZeroInput \/ InvalidInput \/ HasINDET(LFrame)) =>
              /\ hook.status = "raised"
              /\ hook.exc \in {"ZeroDivisionError", "ValueError", "IndeterminateError"}
              /\ hook.df = NoFrame
              /\ LFrame.columns = {}
              /\ FeatureInput.Globals = "None"
              /\ Final => LMFrame = LFrame /\ LMFrame.columns = {}

C29_Witness ==
    /\ RolledBack
    /\ FeatureInput.Model = "Wilson_LT"
    /\ FeatureInput.Parameters.a = 0 /\ FeatureInput.Parameters.r < 0
    /\ HasINDET(LFrame)
    /\ hook.exc = "ZeroDivisionError"
    /\ FeatureInput.Globals = "None"

\* twice the distance, in rows, of row k from the midpoint of a table of n rows
FromNeutralAxis(k, n) == IF 2 * k >= n + 1 THEN 2 * k - (n + 1) ELSE (n + 1) - 2 * k

\* C30: with p >= 2, in every layer but the middle one the interfacial row is the
\* row of the layer farthest from the neutral axis, the lowest row of a layer on
\* the tensile side and the highest of one on the compressive side, and the
\* discontinuity row is the row nearest the neutral axis, next to the adjacent
\* layer
C30_InterfaceFarDiscontinuityNear ==
    (Built /\ p >= 2) =>
        LET rows == LFrame.rows
            n == Len(rows)
        IN  \A layer \in 1..nplies :
                LET of_layer == {k \in 1..n : rows[k].layer_ = layer}
                    interfacial == {k \in of_layer : rows[k].label_ = "interface"}
                    discontinuity == {k \in of_layer : rows[k].label_ = "discont."}
                IN  (\A k \in of_layer : rows[k].type_ # "middle") =>
                        /\ Cardinality(interfacial) = 1
                        /\ Cardinality(discontinuity) = 1
                        /\ \A k \in interfacial :
                              /\ \A j \in of_layer : FromNeutralAxis(j, n) <= FromNeutralAxis(k, n)
                              /\ rows[k].side_ = "Tens." => \A j \in of_layer : k <= j
                              /\ rows[k].side_ = "Comp." => \A j \in of_layer : k >= j
                        /\ \A k \in discontinuity :
                              /\ \A j \in of_layer : FromNeutralAxis(j, n) >= FromNeutralAxis(k, n)
                              /\ rows[k].side_ = "Tens." => rows[k + 1].layer_ = layer + 1
                              /\ rows[k].side_ = "Comp." => rows[k - 1].layer_ = layer - 1
                              /\ rows[k].side_ \in {"Tens.", "Comp."}

C30_Witness ==
    /\ Built /\ p = 3 /\ nplies = 5
    /\ LFrame.rows[4].label_ = "interface" /\ LFrame.rows[4].side_ = "Tens."
    /\ LFrame.rows[6].label_ = "discont." /\ LFrame.rows[6].side_ = "Tens."
    /\ LFrame.rows[10].label_ = "discont." /\ LFrame.rows[10].side_ = "Comp."
    /\ LFrame.rows[12].label_ = "interface" /\ LFrame.rows[12].side_ = "Comp."

====
